---- MODULE Spec2Model ----
(***************************************************************************)
(* AsyncConnectionPool and ResponseByteStream of                           *)
(* httpcore/_async/connection_pool.py as a state machine.                  *)
(*                                                                         *)
(* Tasks are coroutines calling request(), ResponseByteStream.close() and  *)
(* AsyncConnectionPool.close() on one pool.  A step of a task is the code  *)
(* between two suspension points: entering `async with self.thread_lock`,  *)
(* the body of a critical section (which ends by releasing the lock),      *)
(* entering a connection's request()/close() and returning from it.        *)
(* The per-protocol connection objects (AsyncHTTP11Connection,             *)
(* AsyncHTTP2Connection) are collaborators outside this file: their        *)
(* behaviour follows the interface the pool relies on.                     *)
(***************************************************************************)
EXTENDS Integers, FiniteSets, TLC

\* ---------------------------------------------------------------- bounds
\* concurrent callers, distinct origins, and calls made on the pool and on
\* its response bodies in one run
NumTasks == 2
NumOrigins == 2
MaxCalls == 4
\* calls one caller alone makes in one run
MaxSeqCalls == MaxCalls + 1

Tasks == 1..NumTasks
Origins == 1..NumOrigins
\* a request() call constructs at most one connection and one response body
Conns == 1..MaxSeqCalls
Streams == 1..MaxSeqCalls

\* `None` of the code: no connection / no stream / no task.
None == 0

VARIABLES
    http2,        \* AsyncConnectionPool.http2
    connections,  \* AsyncConnectionPool.connections: origin -> set of connections
    lock,         \* holder of AsyncConnectionPool.thread_lock, or None
    cstate,       \* connection.state ("NEW" = object not constructed yet)
    corigin,      \* connection.origin
    dropped,      \* what connection.is_connection_dropped() answers
    closeCalls,   \* how many times connection.close() was invoked
    sconn,        \* ResponseByteStream.connection (None = instance not created)
    sopen,        \* the wrapped stream has not been closed yet
    scloses,      \* how many times ResponseByteStream.close() was called
    snotified,    \* how many times ResponseByteStream.callback was invoked
    pc,           \* where each task is
    torigin,      \* request(): origin
    tconn,        \* request(): connection (reuse_connection until line 75)
    tcur,         \* the loop variable of the `for connection in connections_to_close` loops
    tnew,         \* request(): the connection was constructed by this call
    toclose,      \* connections_to_close of the running call
    pending,      \* the part of connections_to_close the for loop has not reached
    tstream,      \* ResponseByteStream.close(): self
    tsawclosed,   \* _response_closed(): the state test of line 143 was true
    terr,         \* the exception the running call is raising ("none" if none)
    calls,        \* calls the run may still make
    quiet         \* request(): nobody registered on origin since this call's scan emptied it

vars == << http2, connections, lock, cstate, corigin, dropped, closeCalls,
           sconn, sopen, scloses, snotified,
           pc, torigin, tconn, tcur, tnew, toclose, pending, tstream, tsawclosed,
           terr, quiet, calls >>

connVars == << cstate, corigin, dropped, closeCalls >>
streamVars == << sconn, sopen, scloses, snotified >>
localVars == << torigin, tconn, tcur, tnew, toclose, pending, tstream, tsawclosed, terr, quiet, calls >>

\* ------------------------------------------------------------ the registry
\* `origin in self.connections`
HasOrigin(reg, o) == o \in DOMAIN reg

\* del self.connections[origin]
DelOrigin(reg, o) == [k \in (DOMAIN reg) \ {o} |-> reg[k]]

\* self.connections[origin] = s
PutOrigin(reg, o, s) == [k \in (DOMAIN reg) \cup {o} |-> IF k = o THEN s ELSE reg[k]]

\* every connection of the registry
Registered(reg) == UNION {reg[k] : k \in DOMAIN reg}

\* Variant of RegistryAdd: the keys of the dict share one set object, so the
\* connection added for origin o shows under every origin.
RegistryAddSharedSet(reg, o, c) ==
    [k \in (DOMAIN reg) \cup {o} |-> Registered(reg) \cup {c}]

\* self.connections.setdefault(origin, set()); self.connections[origin].add(connection)
RegistryAdd(reg, o, c) ==
    PutOrigin(reg, o, (IF HasOrigin(reg, o) THEN reg[o] ELSE {}) \cup {c})

\* Variant of RegistryDiscard: the `if not connections: del` cleanup is missing.
RegistryDiscardNoCleanup(reg, o, dead) ==
    IF ~HasOrigin(reg, o) THEN reg ELSE PutOrigin(reg, o, reg[o] \ dead)

\* Variant of RegistryDiscard: the connections are collected for closing but
\* stay in the set of the origin.
RegistryDiscardKept(reg, o, dead) == reg

\* connections.remove(connection) followed by the `if not connections: del` cleanup
RegistryDiscard(reg, o, dead) ==
    IF ~HasOrigin(reg, o) THEN reg
    ELSE IF reg[o] \ dead = {} THEN DelOrigin(reg, o)
    ELSE PutOrigin(reg, o, reg[o] \ dead)

\* ----------------------------------------------------------- connections
\* connection.http_version: request() constructs AsyncHTTP2Connection iff self.http2
HttpVersion(c) == IF http2 THEN "HTTP_2" ELSE "HTTP_11"

\* the first connection object not constructed yet
FreshConn == CHOOSE c \in Conns : cstate[c] = "NEW" /\ \A d \in Conns : cstate[d] = "NEW" => c <= d
FreshStream == CHOOSE s \in Streams : sconn[s] = None /\ \A d \in Streams : sconn[d] = None => s <= d

\* tasks executing connection.request() on c, and response bodies of c still open
InRequest(c) == {t \in Tasks : pc[t] = "rq" /\ tconn[t] = c}
OpenStreams(c) == {s \in Streams : sconn[s] = c /\ sopen[s]}

Init ==
    /\ http2 \in BOOLEAN
    /\ connections = [k \in {} |-> {}]
    /\ lock = None
    /\ cstate = [c \in Conns |-> "NEW"]
    /\ corigin = [c \in Conns |-> None]
    /\ dropped = [c \in Conns |-> FALSE]
    /\ closeCalls = [c \in Conns |-> 0]
    /\ sconn = [s \in Streams |-> None]
    /\ sopen = [s \in Streams |-> FALSE]
    /\ scloses = [s \in Streams |-> 0]
    /\ snotified = [s \in Streams |-> 0]
    /\ pc = [t \in Tasks |-> "idle"]
    /\ torigin = [t \in Tasks |-> None]
    /\ tconn = [t \in Tasks |-> None]
    /\ tcur = [t \in Tasks |-> None]
    /\ tnew = [t \in Tasks |-> FALSE]
    /\ toclose = [t \in Tasks |-> {}]
    /\ pending = [t \in Tasks |-> {}]
    /\ tstream = [t \in Tasks |-> None]
    /\ tsawclosed = [t \in Tasks |-> FALSE]
    /\ terr = [t \in Tasks |-> "none"]
    /\ quiet = [t \in Tasks |-> FALSE]
    /\ calls = MaxCalls

\* ------------------------------------------------------------------ tasks
\* Where a task is when its last call returned or raised: the locals of that
\* call stay readable until the task makes its next call.
Returned == {"request_returned", "stream_closed", "pool_closed"}
Raised == {"request_raised", "stream_close_raised", "pool_close_raised"}
Ready(t) == pc[t] \in {"idle"} \cup Returned \cup Raised

\* A task may make its next call.  Tasks between calls are interchangeable, so
\* the next call is made by the first of them; the run makes a bounded number
\* of calls.
CanCall(t) == Ready(t) /\ calls > 0 /\ \A u \in Tasks : u < t => ~Ready(u)

\* Origins are interchangeable: a run names them in order of first use.
NextOrigin(o) ==
    o > 1 => \/ \E c \in Conns : corigin[c] = o - 1
             \/ \E u \in Tasks : torigin[u] = o - 1

\* The locals of a task entering a new call.
NewFrame(t, o, s, c) ==
    /\ torigin' = [torigin EXCEPT ![t] = o]
    /\ tstream' = [tstream EXCEPT ![t] = s]
    /\ tconn' = [tconn EXCEPT ![t] = c]
    /\ tcur' = [tcur EXCEPT ![t] = None]
    /\ tnew' = [tnew EXCEPT ![t] = FALSE]
    /\ toclose' = [toclose EXCEPT ![t] = {}]
    /\ pending' = [pending EXCEPT ![t] = {}]
    /\ tsawclosed' = [tsawclosed EXCEPT ![t] = FALSE]
    /\ terr' = [terr EXCEPT ![t] = "none"]
    /\ quiet' = [quiet EXCEPT ![t] = FALSE]
    /\ calls' = calls - 1

\* ------------------------------------------------- connection collaborators
\* The state a connection object has when its constructor returns.  IDLE means
\* "established, no in-flight request"; a connection constructed on a pool miss
\* is there to serve the request that missed.
ConnInitState == "ACTIVE"

\* connection.request() is entered: the connection serves a request.
ConnRequestEntered(st, c) ==
    IF st[c] = "CLOSED" THEN st ELSE [st EXCEPT ![c] = "ACTIVE"]

\* States connection.request() may leave c in when it raises.
ConnRequestFailStates(c) == {cstate[c], "CLOSED"}

\* States connection.close() may leave c in: CLOSED when it returns, and
\* CLOSED or untouched when it raises.
ConnCloseStates(c, ok) == IF ok THEN {"CLOSED"} ELSE {cstate[c], "CLOSED"}

\* States the close of response body s may leave its connection c in.
\* Returning: the connection goes back to IDLE once nothing else is in flight
\* on it (a multiplexed connection stays ACTIVE while other requests run), or
\* it is torn down.  Raising: untouched or torn down.  CLOSED is terminal, and
\* closing a body that is closed already changes nothing.
ConnBodyCloseStates(c, s, ok) ==
    IF cstate[c] = "CLOSED" \/ ~sopen[s] THEN {cstate[c]}
    ELSE IF ~ok THEN {cstate[c], "CLOSED"}
    ELSE IF InRequest(c) \cup (OpenStreams(c) \ {s}) # {} THEN {cstate[c], "CLOSED"}
    ELSE {"IDLE", "CLOSED"}

\* The peer closes the socket of an idle connection.
PeerDrops(c) ==
    /\ cstate[c] = "IDLE"
    /\ ~dropped[c]
    /\ dropped' = [dropped EXCEPT ![c] = TRUE]
    /\ UNCHANGED << http2, connections, lock, cstate, corigin, closeCalls,
                    streamVars, pc, localVars >>

\* --------------------------------------------------------------- request()
\* request() is called: origin = url[:3]; _get_connection_from_pool(origin) starts.
StartRequest(t, o) ==
    /\ CanCall(t)
    /\ NextOrigin(o)
    /\ pc' = [pc EXCEPT ![t] = "get_lock"]
    /\ NewFrame(t, o, None, None)
    /\ UNCHANGED << http2, connections, lock, connVars, streamVars >>

\* async with self.thread_lock (line 103)
GetLock(t) ==
    /\ pc[t] = "get_lock"
    /\ lock = None
    /\ lock' = t
    /\ pc' = [pc EXCEPT ![t] = "get_scan"]
    /\ UNCHANGED << http2, connections, connVars, streamVars, localVars >>

\* IDLE connections that have been dropped (lines 107-112)
DroppedIdle(S) == {c \in S : cstate[c] = "IDLE" /\ dropped[c]}

\* Variant of Candidates: an IDLE connection is a candidate without the
\* is_connection_dropped() test.
CandidatesUnprobed(S) ==
    {c \in S : \/ cstate[c] = "IDLE"
               \/ cstate[c] = "ACTIVE" /\ HttpVersion(c) = "HTTP_2"}

\* Variant of Candidates: the second branch of the loop tests the protocol only,
\* not the state, so a CLOSED connection of an HTTP/2 pool is a candidate.
CandidatesAnyStateHttp2(S) ==
    {c \in S : \/ cstate[c] = "IDLE" /\ ~dropped[c]
               \/ cstate[c] # "IDLE" /\ HttpVersion(c) = "HTTP_2"}

\* connections the loop assigns to reuse_connection (lines 113-122)
Candidates(S) ==
    {c \in S : \/ cstate[c] = "IDLE" /\ ~dropped[c]
               \/ cstate[c] = "ACTIVE" /\ HttpVersion(c) = "HTTP_2"}

\* Variant of ReuseChoices: reuse_connection is never assigned.
ReuseNever(S) == {None}

\* Variant of ReuseChoices: reuse_connection is assigned before the dropped
\* test, so a connection the loop evicts may be the one returned.
ReuseChoicesBeforeProbe(S) ==
    IF Candidates(S) \cup DroppedIdle(S) = {} THEN {None} ELSE Candidates(S) \cup DroppedIdle(S)

\* reuse_connection after the loop: the candidate the iteration of the set met
\* last, which may be any of them; None without a candidate.
ReuseChoices(S) == IF Candidates(S) = {} THEN {None} ELSE Candidates(S)

\* Variant of MarkActive: the candidate is returned without being reserved.
MarkActiveSkipped(st, r) == st

\* Mark the connection as ACTIVE before we return it (lines 130-131)
MarkActive(st, r) == IF r # None THEN [st EXCEPT ![r] = "ACTIVE"] ELSE st

\* The critical section of _get_connection_from_pool (lines 104-131).
GetScan(t) ==
    /\ pc[t] = "get_scan"
    /\ lock = t
    /\ LET o == torigin[t]
           S == IF HasOrigin(connections, o) THEN connections[o] ELSE {}
       IN  \E r \in ReuseChoices(S) :
             /\ connections' = RegistryDiscard(connections, o, DroppedIdle(S))
             /\ cstate' = MarkActive(cstate, r)
             /\ tconn' = [tconn EXCEPT ![t] = r]
             /\ toclose' = [toclose EXCEPT ![t] = DroppedIdle(S)]
             /\ pending' = [pending EXCEPT ![t] = DroppedIdle(S)]
             /\ quiet' = [quiet EXCEPT ![t] = ~HasOrigin(connections', o)]
    /\ lock' = None
    /\ pc' = [pc EXCEPT ![t] = "get_evict"]
    /\ UNCHANGED << http2, corigin, dropped, closeCalls, streamVars,
                    torigin, tcur, tnew, tstream, tsawclosed, terr, calls >>

\* for connection in connections_to_close: await connection.close() (lines 134-135)
GetEvictNext(t) ==
    /\ pc[t] = "get_evict"
    /\ \E c \in pending[t] :
         /\ tcur' = [tcur EXCEPT ![t] = c]
         /\ closeCalls' = [closeCalls EXCEPT ![c] = @ + 1]
    /\ pc' = [pc EXCEPT ![t] = "get_evict_close"]
    /\ UNCHANGED << http2, connections, lock, cstate, corigin, dropped, streamVars,
                    torigin, tconn, tnew, toclose, pending, tstream, tsawclosed, terr,
                    quiet, calls >>

\* connection.close() of an evicted connection returns.
GetEvictClosed(t) ==
    /\ pc[t] = "get_evict_close"
    /\ \E st \in ConnCloseStates(tcur[t], TRUE) :
         cstate' = [cstate EXCEPT ![tcur[t]] = st]
    /\ pending' = [pending EXCEPT ![t] = @ \ {tcur[t]}]
    /\ tcur' = [tcur EXCEPT ![t] = None]
    /\ pc' = [pc EXCEPT ![t] = "get_evict"]
    /\ UNCHANGED << http2, connections, lock, corigin, dropped, closeCalls, streamVars,
                    torigin, tconn, tnew, toclose, tstream, tsawclosed, terr,
                    quiet, calls >>

\* connection.close() of an evicted connection raises: nothing catches it in
\* _get_connection_from_pool or in request().
GetEvictRaises(t) ==
    /\ pc[t] = "get_evict_close"
    /\ \E st \in ConnCloseStates(tcur[t], FALSE) :
         cstate' = [cstate EXCEPT ![tcur[t]] = st]
    /\ terr' = [terr EXCEPT ![t] = "CloseError"]
    /\ pc' = [pc EXCEPT ![t] = "request_raised"]
    /\ UNCHANGED << http2, connections, lock, corigin, dropped, closeCalls, streamVars,
                    torigin, tconn, tcur, tnew, toclose, pending, tstream, tsawclosed,
                    quiet, calls >>

\* _get_connection_from_pool returned None: construct a connection (lines 75-83).
CreateConnection(t) ==
    /\ pc[t] = "get_evict"
    /\ pending[t] = {}
    /\ tconn[t] = None
    /\ LET c == FreshConn IN
         /\ cstate' = [cstate EXCEPT ![c] = ConnInitState]
         /\ corigin' = [corigin EXCEPT ![c] = torigin[t]]
         /\ tconn' = [tconn EXCEPT ![t] = c]
    /\ tnew' = [tnew EXCEPT ![t] = TRUE]
    /\ pc' = [pc EXCEPT ![t] = "reg_lock"]
    /\ UNCHANGED << http2, connections, lock, dropped, closeCalls, streamVars,
                    torigin, tcur, toclose, pending, tstream, tsawclosed, terr,
                    quiet, calls >>

\* async with self.thread_lock (line 84)
RegisterLock(t) ==
    /\ pc[t] = "reg_lock"
    /\ lock = None
    /\ lock' = t
    /\ pc' = [pc EXCEPT ![t] = "reg_add"]
    /\ UNCHANGED << http2, connections, connVars, streamVars, localVars >>

\* setdefault(origin, set()) and add(connection) (lines 85-86)
Register(t) ==
    /\ pc[t] = "reg_add"
    /\ lock = t
    /\ connections' = RegistryAdd(connections, torigin[t], tconn[t])
    /\ lock' = None
    /\ pc' = [pc EXCEPT ![t] = "req_call"]
    /\ quiet' = [u \in Tasks |-> quiet[u] /\ (u = t \/ torigin[u] # torigin[t])]
    /\ UNCHANGED << http2, connVars, streamVars,
                    torigin, tconn, tcur, tnew, toclose, pending, tstream, tsawclosed, terr, calls >>

\* await connection.request(...) is entered (line 88), with the connection
\* _get_connection_from_pool returned or with the one just registered.
RequestCall(t) ==
    /\ \/ pc[t] = "req_call"
       \/ pc[t] = "get_evict" /\ pending[t] = {} /\ tconn[t] # None
    /\ cstate' = ConnRequestEntered(cstate, tconn[t])
    /\ pc' = [pc EXCEPT ![t] = "rq"]
    /\ UNCHANGED << http2, connections, lock, corigin, dropped, closeCalls, streamVars,
                    localVars >>

\* connection.request() returns: wrap response[4] in a ResponseByteStream and
\* return (lines 91-94).
RequestReturns(t) ==
    /\ pc[t] = "rq"
    /\ cstate[tconn[t]] # "CLOSED"
    /\ LET s == FreshStream IN
         /\ sconn' = [sconn EXCEPT ![s] = tconn[t]]
         /\ sopen' = [sopen EXCEPT ![s] = TRUE]
         /\ tstream' = [tstream EXCEPT ![t] = s]
    /\ pc' = [pc EXCEPT ![t] = "request_returned"]
    /\ UNCHANGED << http2, connections, lock, connVars, scloses, snotified,
                    torigin, tconn, tcur, tnew, toclose, pending, tsawclosed, terr,
                    quiet, calls >>

\* Variant of RequestRaises: request() handles the failure by unregistering
\* and closing the connection before raising.
RequestRaisesCleansUp(t) ==
    /\ pc[t] = "rq"
    /\ cstate' = [cstate EXCEPT ![tconn[t]] = "CLOSED"]
    /\ closeCalls' = [closeCalls EXCEPT ![tconn[t]] = @ + 1]
    /\ connections' = RegistryDiscard(connections, corigin[tconn[t]], {tconn[t]})
    /\ terr' = [terr EXCEPT ![t] = "RequestError"]
    /\ pc' = [pc EXCEPT ![t] = "request_raised"]
    /\ UNCHANGED << http2, lock, corigin, dropped, streamVars,
                    torigin, tconn, tcur, tnew, toclose, pending, tstream, tsawclosed,
                    quiet, calls >>

\* connection.request() raises: request() has no handler, the exception goes to
\* its caller (lines 88-90).
RequestRaises(t) ==
    /\ pc[t] = "rq"
    /\ \E st \in ConnRequestFailStates(tconn[t]) :
         cstate' = [cstate EXCEPT ![tconn[t]] = st]
    /\ terr' = [terr EXCEPT ![t] = "RequestError"]
    /\ pc' = [pc EXCEPT ![t] = "request_raised"]
    /\ UNCHANGED << http2, connections, lock, corigin, dropped, closeCalls, streamVars,
                    torigin, tconn, tcur, tnew, toclose, pending, tstream, tsawclosed,
                    quiet, calls >>

\* --------------------------------------------- ResponseByteStream.close()
\* close() is called on response body s (line 36).
StartStreamClose(t, s) ==
    /\ CanCall(t)
    /\ sconn[s] # None
    /\ \A u \in Tasks : pc[u] \in {"body_close", "cb_lock", "cb_body"} => tstream[u] # s
    /\ scloses' = [scloses EXCEPT ![s] = @ + 1]
    /\ pc' = [pc EXCEPT ![t] = "body_close"]
    /\ NewFrame(t, None, s, sconn[s])
    /\ UNCHANGED << http2, connections, lock, connVars, sconn, sopen, snotified >>

\* Variant of BodyClose: the callback is also awaited inside the try block, after
\* the wrapped close returned.
BodyCloseNotifiesInTry(t, ok) ==
    /\ pc[t] = "body_close"
    /\ \E st \in ConnBodyCloseStates(tconn[t], tstream[t], ok) :
         cstate' = [cstate EXCEPT ![tconn[t]] = st]
    /\ sopen' = [sopen EXCEPT ![tstream[t]] = FALSE]
    /\ snotified' = [snotified EXCEPT ![tstream[t]] = IF ok THEN @ + 1 ELSE @]
    /\ terr' = [terr EXCEPT ![t] = IF ok THEN "none" ELSE "StreamError"]
    /\ pc' = [pc EXCEPT ![t] = "cb_lock"]
    /\ UNCHANGED << http2, connections, lock, corigin, dropped, closeCalls,
                    sconn, scloses,
                    torigin, tconn, tcur, tnew, toclose, pending, tstream, tsawclosed,
                    quiet, calls >>

\* Variant of BodyClose: no finally clause, the callback is awaited only when the
\* wrapped close returned.
BodyCloseNoFinally(t, ok) ==
    /\ pc[t] = "body_close"
    /\ \E st \in ConnBodyCloseStates(tconn[t], tstream[t], ok) :
         cstate' = [cstate EXCEPT ![tconn[t]] = st]
    /\ sopen' = [sopen EXCEPT ![tstream[t]] = FALSE]
    /\ terr' = [terr EXCEPT ![t] = IF ok THEN "none" ELSE "StreamError"]
    /\ pc' = [pc EXCEPT ![t] = IF ok THEN "cb_lock" ELSE "stream_close_raised"]
    /\ UNCHANGED << http2, connections, lock, corigin, dropped, closeCalls,
                    sconn, scloses, snotified,
                    torigin, tconn, tcur, tnew, toclose, pending, tstream, tsawclosed,
                    quiet, calls >>

\* await self.stream.close() returns (ok) or raises (~ok); either way control
\* goes to the finally clause (lines 37-41).
BodyClose(t, ok) ==
    /\ pc[t] = "body_close"
    /\ \E st \in ConnBodyCloseStates(tconn[t], tstream[t], ok) :
         cstate' = [cstate EXCEPT ![tconn[t]] = st]
    /\ sopen' = [sopen EXCEPT ![tstream[t]] = FALSE]
    /\ terr' = [terr EXCEPT ![t] = IF ok THEN "none" ELSE "StreamError"]
    /\ pc' = [pc EXCEPT ![t] = "cb_lock"]
    /\ UNCHANGED << http2, connections, lock, corigin, dropped, closeCalls,
                    sconn, scloses, snotified,
                    torigin, tconn, tcur, tnew, toclose, pending, tstream, tsawclosed,
                    quiet, calls >>

\* finally: await self.callback(self.connection) (line 44); _response_closed
\* enters async with self.thread_lock (line 142).
CallbackLock(t) ==
    /\ pc[t] = "cb_lock"
    /\ lock = None
    /\ lock' = t
    /\ snotified' = [snotified EXCEPT ![tstream[t]] = @ + 1]
    /\ pc' = [pc EXCEPT ![t] = "cb_body"]
    /\ UNCHANGED << http2, connections, connVars, sconn, sopen, scloses,
                    localVars >>

\* self.connections[connection.origin].remove(connection) raises KeyError when
\* the origin is no key of the dict or the connection no member of the set.
RemoveRaises(reg, c) == ~HasOrigin(reg, corigin[c]) \/ c \notin reg[corigin[c]]

\* Variant of RemoveClosed: the connection is removed and the set of its origin
\* is kept when it becomes empty.
RemoveClosedNoCleanup(reg, c) == RegistryDiscardNoCleanup(reg, corigin[c], {c})

\* lines 144-146, when they do not raise
RemoveClosed(reg, c) == RegistryDiscard(reg, corigin[c], {c})

\* Variant of CallbackBody: the connection is removed whatever its state, the
\* test of line 143 is left out.
CallbackBodyAlwaysRemoves(t) ==
    /\ pc[t] = "cb_body"
    /\ lock = t
    /\ LET c == tconn[t] IN
         /\ tsawclosed' = [tsawclosed EXCEPT ![t] = TRUE]
         /\ IF RemoveRaises(connections, c)
            THEN /\ terr' = [terr EXCEPT ![t] = "KeyError"]
                 /\ UNCHANGED connections
            ELSE /\ connections' = RemoveClosed(connections, c)
                 /\ UNCHANGED terr
    /\ lock' = None
    /\ pc' = [pc EXCEPT ![t] = IF terr'[t] = "none" THEN "stream_closed" ELSE "stream_close_raised"]
    /\ UNCHANGED << http2, connVars, streamVars,
                    torigin, tconn, tcur, tnew, toclose, pending, tstream,
                    quiet, calls >>

\* The critical section of _response_closed (lines 143-146).  An exception of
\* the finally clause replaces the one of the try block.
CallbackBody(t) ==
    /\ pc[t] = "cb_body"
    /\ lock = t
    /\ LET c == tconn[t] IN
         IF cstate[c] = "CLOSED"
         THEN /\ tsawclosed' = [tsawclosed EXCEPT ![t] = TRUE]
              /\ IF RemoveRaises(connections, c)
                 THEN /\ terr' = [terr EXCEPT ![t] = "KeyError"]
                      /\ UNCHANGED connections
                 ELSE /\ connections' = RemoveClosed(connections, c)
                      /\ UNCHANGED terr
         ELSE UNCHANGED << tsawclosed, terr, connections >>
    /\ lock' = None
    /\ pc' = [pc EXCEPT ![t] = IF terr'[t] = "none" THEN "stream_closed" ELSE "stream_close_raised"]
    /\ UNCHANGED << http2, connVars, streamVars,
                    torigin, tconn, tcur, tnew, toclose, pending, tstream,
                    quiet, calls >>

\* ------------------------------------------------ AsyncConnectionPool.close()
\* close() is called (line 148).
StartPoolClose(t) ==
    /\ CanCall(t)
    /\ pc' = [pc EXCEPT ![t] = "pool_lock"]
    /\ NewFrame(t, None, None, None)
    /\ UNCHANGED << http2, connections, lock, connVars, streamVars >>

\* async with self.thread_lock (line 151)
PoolCloseLock(t) ==
    /\ pc[t] = "pool_lock"
    /\ lock = None
    /\ lock' = t
    /\ pc' = [pc EXCEPT ![t] = "pool_collect"]
    /\ UNCHANGED << http2, connections, connVars, streamVars, localVars >>

\* Variant of RegistryClear: the registry is not cleared.
RegistryClearSkipped(reg) == reg

\* self.connections.clear()
RegistryClear(reg) == [k \in {} |-> {}]

\* Variant of PoolCloseCollect: the loop that closes the connections is inside
\* the async with block, the lock is kept while it runs.
PoolCloseCollectUnderLock(t) ==
    /\ pc[t] = "pool_collect"
    /\ lock = t
    /\ toclose' = [toclose EXCEPT ![t] = Registered(connections)]
    /\ pending' = [pending EXCEPT ![t] = Registered(connections)]
    /\ connections' = RegistryClear(connections)
    /\ lock' = t
    /\ pc' = [pc EXCEPT ![t] = "pool_loop"]
    /\ UNCHANGED << http2, connVars, streamVars,
                    torigin, tconn, tcur, tnew, tstream, tsawclosed, terr, quiet, calls >>

\* The critical section of close() (lines 152-154).
PoolCloseCollect(t) ==
    /\ pc[t] = "pool_collect"
    /\ lock = t
    /\ toclose' = [toclose EXCEPT ![t] = Registered(connections)]
    /\ pending' = [pending EXCEPT ![t] = Registered(connections)]
    /\ connections' = RegistryClear(connections)
    /\ lock' = None
    /\ pc' = [pc EXCEPT ![t] = "pool_loop"]
    /\ UNCHANGED << http2, connVars, streamVars,
                    torigin, tconn, tcur, tnew, tstream, tsawclosed, terr, quiet, calls >>

\* for connection in connections_to_close: await connection.close() (lines 157-158)
PoolCloseNext(t) ==
    /\ pc[t] = "pool_loop"
    /\ \E c \in pending[t] :
         /\ tcur' = [tcur EXCEPT ![t] = c]
         /\ closeCalls' = [closeCalls EXCEPT ![c] = @ + 1]
    /\ pc' = [pc EXCEPT ![t] = "pool_conn_close"]
    /\ UNCHANGED << http2, connections, lock, cstate, corigin, dropped, streamVars,
                    torigin, tconn, tnew, toclose, pending, tstream, tsawclosed, terr,
                    quiet, calls >>

\* connection.close() returns: next iteration.
PoolCloseClosed(t) ==
    /\ pc[t] = "pool_conn_close"
    /\ \E st \in ConnCloseStates(tcur[t], TRUE) :
         cstate' = [cstate EXCEPT ![tcur[t]] = st]
    /\ pending' = [pending EXCEPT ![t] = @ \ {tcur[t]}]
    /\ tcur' = [tcur EXCEPT ![t] = None]
    /\ pc' = [pc EXCEPT ![t] = "pool_loop"]
    /\ UNCHANGED << http2, connections, lock, corigin, dropped, closeCalls, streamVars,
                    torigin, tconn, tnew, toclose, tstream, tsawclosed, terr,
                    quiet, calls >>

\* connection.close() raises: the loop has no handler, close() raises.
PoolCloseRaises(t) ==
    /\ pc[t] = "pool_conn_close"
    /\ \E st \in ConnCloseStates(tcur[t], FALSE) :
         cstate' = [cstate EXCEPT ![tcur[t]] = st]
    /\ terr' = [terr EXCEPT ![t] = "CloseError"]
    /\ pc' = [pc EXCEPT ![t] = "pool_close_raised"]
    /\ UNCHANGED << http2, connections, lock, corigin, dropped, closeCalls, streamVars,
                    torigin, tconn, tcur, tnew, toclose, pending, tstream, tsawclosed,
                    quiet, calls >>

\* The loop is exhausted: close() returns.
PoolCloseReturns(t) ==
    /\ pc[t] = "pool_loop"
    /\ pending[t] = {}
    /\ pc' = [pc EXCEPT ![t] = "pool_closed"]
    /\ UNCHANGED << http2, connections, lock, connVars, streamVars, localVars >>

Next ==
    \/ \E t \in Tasks, o \in Origins : StartRequest(t, o)
    \/ \E t \in Tasks : GetLock(t)
    \/ \E t \in Tasks : GetScan(t)
    \/ \E t \in Tasks : GetEvictNext(t)
    \/ \E t \in Tasks : GetEvictClosed(t)
    \/ \E t \in Tasks : GetEvictRaises(t)
    \/ \E t \in Tasks : CreateConnection(t)
    \/ \E t \in Tasks : RegisterLock(t)
    \/ \E t \in Tasks : Register(t)
    \/ \E t \in Tasks : RequestCall(t)
    \/ \E t \in Tasks : RequestReturns(t)
    \/ \E t \in Tasks : RequestRaises(t)
    \/ \E t \in Tasks, s \in Streams : StartStreamClose(t, s)
    \/ \E t \in Tasks, ok \in BOOLEAN : BodyClose(t, ok)
    \/ \E t \in Tasks : CallbackLock(t)
    \/ \E t \in Tasks : CallbackBody(t)
    \/ \E t \in Tasks : StartPoolClose(t)
    \/ \E t \in Tasks : PoolCloseLock(t)
    \/ \E t \in Tasks : PoolCloseCollect(t)
    \/ \E t \in Tasks : PoolCloseNext(t)
    \/ \E t \in Tasks : PoolCloseClosed(t)
    \/ \E t \in Tasks : PoolCloseRaises(t)
    \/ \E t \in Tasks : PoolCloseReturns(t)
    \/ \E c \in Conns : PeerDrops(c)

Spec == Init /\ [][Next]_vars

\* A pool used by one caller, which makes its calls one after the other: the
\* second task never calls.
InitSequential ==
    /\ http2 \in BOOLEAN
    /\ connections = [k \in {} |-> {}]
    /\ lock = None
    /\ cstate = [c \in Conns |-> "NEW"]
    /\ corigin = [c \in Conns |-> None]
    /\ dropped = [c \in Conns |-> FALSE]
    /\ closeCalls = [c \in Conns |-> 0]
    /\ sconn = [s \in Streams |-> None]
    /\ sopen = [s \in Streams |-> FALSE]
    /\ scloses = [s \in Streams |-> 0]
    /\ snotified = [s \in Streams |-> 0]
    /\ pc = [t \in Tasks |-> IF t = 1 THEN "idle" ELSE "absent"]
    /\ torigin = [t \in Tasks |-> None]
    /\ tconn = [t \in Tasks |-> None]
    /\ tcur = [t \in Tasks |-> None]
    /\ tnew = [t \in Tasks |-> FALSE]
    /\ toclose = [t \in Tasks |-> {}]
    /\ pending = [t \in Tasks |-> {}]
    /\ tstream = [t \in Tasks |-> None]
    /\ tsawclosed = [t \in Tasks |-> FALSE]
    /\ terr = [t \in Tasks |-> "none"]
    /\ quiet = [t \in Tasks |-> FALSE]
    /\ calls = MaxSeqCalls

SpecSequential == InitSequential /\ [][Next]_vars

\* ================================================================ claims
\* Tasks the pool handed connection c to, whose request() is still running,
\* and response bodies of c that were returned and not closed yet.
Holding(c) ==
    {t \in Tasks : tconn[t] = c /\ pc[t] \in {"get_evict", "get_evict_close", "reg_lock",
                                             "reg_add", "req_call", "rq"}}

\* C1: a non-multiplexed connection is never in the hands of two callers at
\* once: at most one running request() or open response body has it, so of two
\* requests racing for an idle connection one gets it and the other does not.
C1_SingleStreamExclusive ==
    ~http2 => \A c \in Conns : Cardinality(Holding(c)) + Cardinality(OpenStreams(c)) <= 1

\* C1 witness: two request() calls to one origin are past their scan together;
\* one was given the registered connection that had gone idle, the other none.
C1_Witness ==
    /\ ~http2
    /\ \E t1, t2 \in Tasks :
         /\ t1 # t2
         /\ torigin[t1] = torigin[t2]
         /\ pc[t1] = "get_evict" /\ pc[t2] = "get_evict"
         /\ tconn[t1] # None /\ tconn[t2] = None
         /\ tconn[t1] \in Registered(connections)
         /\ cstate[tconn[t1]] = "ACTIVE"

\* Nothing was closed and nothing failed so far.
Undisturbed ==
    /\ \A s \in Streams : scloses[s] = 0
    /\ \A c \in Conns : cstate[c] \in {"NEW", "ACTIVE"}
    /\ \A t \in Tasks : terr[t] = "none" /\ pc[t] \notin {"pool_lock", "pool_collect", "pool_loop",
                                                         "pool_conn_close", "pool_closed"}

\* C2 (as claimed): in multiplexed mode, while no response was closed, at most
\* one connection is ever constructed for an origin.
C2_OneConnectionPerOrigin ==
    (http2 /\ Undisturbed) =>
        \A o \in Origins : Cardinality({c \in Conns : cstate[c] # "NEW" /\ corigin[c] = o}) <= 1

\* C3: no origin key of the registry maps to an empty set.
C3_NoEmptySet == \A o \in DOMAIN connections : connections[o] # {}

\* C3 witness: _response_closed removed the last connection of an origin, and
\* the origin is no key of the registry any more.
C3_Witness ==
    \E t \in Tasks :
        /\ pc[t] = "stream_closed"
        /\ tsawclosed[t]
        /\ ~HasOrigin(connections, corigin[tconn[t]])
        /\ DOMAIN connections # {}

\* close() calls on response body s that have not reached the finally clause
ClosingBeforeFinally(s) == {t \in Tasks : tstream[t] = s /\ pc[t] \in {"body_close", "cb_lock"}}

\* C4 (as claimed): a response body whose close() was called, and is not
\* running, had its callback invoked exactly once.
C4_NotifiedOncePerInstance ==
    \A s \in Streams :
        (scloses[s] > 0 /\ \A t \in Tasks : tstream[t] = s => Ready(t)) => snotified[s] = 1

\* C4 (amended): the callback is invoked exactly once per close() call: its
\* invocations are the close() calls that reached the finally clause, whether
\* the wrapped close returned or raised.
C4_NotifiedOncePerClose ==
    \A s \in Streams : snotified[s] = scloses[s] - Cardinality(ClosingBeforeFinally(s))

\* C4 witness: a close() whose wrapped close raised has ended, and the callback
\* of that response body was invoked once.
C4_Witness ==
    \E t \in Tasks :
        /\ pc[t] = "stream_close_raised"
        /\ terr[t] = "StreamError"
        /\ scloses[tstream[t]] = 1
        /\ snotified[tstream[t]] = 1

\* C5: a close() of a response body ends, returning or raising, only by the
\* step that completes the callback, after the wrapped close was attempted;
\* when it ends, a connection the callback saw CLOSED is out of the registry.
C5_NotifyBeforeFailure ==
    [][\A t \in Tasks :
         (pc[t] \notin {"stream_closed", "stream_close_raised"}
            /\ pc'[t] \in {"stream_closed", "stream_close_raised"})
         => /\ pc[t] = "cb_body"
            /\ ~sopen[tstream[t]]
            /\ snotified[tstream[t]] = scloses[tstream[t]]
            /\ cstate[tconn[t]] = "CLOSED" => tconn[t] \notin Registered(connections')]_vars

\* C5 witness: the wrapped close raised and left the connection CLOSED; the
\* caller has the failure and the connection is out of the registry.
C5_Witness ==
    \E t \in Tasks :
        /\ pc[t] = "stream_close_raised"
        /\ terr[t] = "StreamError"
        /\ tsawclosed[t]
        /\ snotified[tstream[t]] = 1
        /\ tconn[t] \notin Registered(connections)

\* C6 (as claimed): at the step by which close() returns, the registry is
\* empty and every connection it collected had close() invoked exactly once.
C6_ShutdownComplete ==
    [][\A t \in Tasks :
         (pc[t] = "pool_loop" /\ pc'[t] = "pool_closed")
         => /\ DOMAIN connections' = {}
            /\ \A c \in toclose[t] : closeCalls[c] = 1]_vars

\* C6 (amended): the critical section of close() collects every registered
\* connection and leaves the registry empty; when close() returns, each
\* connection it collected is CLOSED, out of the registry, and had close()
\* invoked exactly once.  Connections a concurrent request() registers after
\* the critical section are not covered.
C6_ShutdownOfCollected ==
    [][\A t \in Tasks :
         /\ (pc[t] = "pool_collect" /\ pc'[t] = "pool_loop")
            => /\ DOMAIN connections' = {}
               /\ toclose'[t] = Registered(connections)
         /\ (pc[t] = "pool_loop" /\ pc'[t] = "pool_closed")
            => \A c \in toclose[t] : /\ closeCalls[c] = 1
                                     /\ cstate[c] = "CLOSED"
                                     /\ c \notin Registered(connections')]_vars

\* C6 witness: close() returned after closing what it collected, while a
\* request() that ran concurrently has its new connection in the registry.
C6_Witness ==
    \E t, u \in Tasks :
        /\ pc[t] = "pool_closed"
        /\ toclose[t] # {}
        /\ \A c \in toclose[t] : closeCalls[c] = 1 /\ cstate[c] = "CLOSED"
        /\ pc[u] \in {"req_call", "rq"}
        /\ tnew[u]
        /\ tconn[u] \in Registered(connections)

\* C7 (as claimed): when a loop over connections_to_close ends because a
\* connection's close() raised, close() was still invoked on every connection
\* of that collection.
C7_TeardownIsolated ==
    \A t \in Tasks :
        (pc[t] = "pool_close_raised" \/ (pc[t] = "request_raised" /\ terr[t] = "CloseError"))
        => \A c \in toclose[t] : closeCalls[c] >= 1

\* request() calls whose _get_connection_from_pool has returned
PastLookup(t) ==
    \/ pc[t] \in {"reg_lock", "reg_add", "req_call", "rq", "request_returned"}
    \/ pc[t] = "request_raised" /\ terr[t] = "RequestError"

\* C8: a dropped IDLE connection is never the one returned for reuse; once the
\* lookup that probed it has returned, it is out of the registry, CLOSED, and
\* its close() was invoked; and when the evictions emptied the origin and no
\* other request registered on it meanwhile, registering the fresh connection
\* leaves the origin with exactly that one connection.
C8_DeadEvicted ==
    /\ [](\A t \in Tasks :
            /\ tconn[t] \notin toclose[t]
            /\ PastLookup(t) => \A c \in toclose[t] : /\ c \notin Registered(connections)
                                                     /\ cstate[c] = "CLOSED"
                                                     /\ closeCalls[c] = 1)
    /\ [][\A t \in Tasks :
            (pc[t] = "reg_add" /\ pc'[t] = "req_call" /\ quiet[t])
            => /\ HasOrigin(connections', torigin[t])
               /\ connections'[torigin[t]] = {tconn[t]}
               /\ tnew[t]]_vars

\* C8 witness (Scenario B): the only connection of the origin was idle and
\* dropped; the request evicted and closed it and registered a fresh one.
C8_Witness ==
    \E t \in Tasks :
        /\ pc[t] = "req_call"
        /\ tnew[t]
        /\ toclose[t] # {}
        /\ \A c \in toclose[t] : cstate[c] = "CLOSED" /\ closeCalls[c] = 1 /\ dropped[c]
        /\ HasOrigin(connections, torigin[t])
        /\ connections[torigin[t]] = {tconn[t]}

\* the connections of origin o in the registry
OriginSet(reg, o) == IF HasOrigin(reg, o) THEN reg[o] ELSE {}

\* IDLE connections of S whose probe says they are alive
IdleAlive(S) == {c \in S : cstate[c] = "IDLE" /\ ~dropped[c]}

\* C9: in non-multiplexed mode, a lookup that finds an IDLE, alive connection
\* registered for the origin returns such a connection, marked ACTIVE, and
\* keeps the origin's other live connections registered; a request served by a
\* reused connection constructs no connection and registers nothing.
C9_KeepAliveReuse ==
    [][\A t \in Tasks :
         /\ (pc[t] = "get_scan" /\ pc'[t] = "get_evict" /\ ~http2
               /\ IdleAlive(OriginSet(connections, torigin[t])) # {})
            => /\ tconn'[t] \in IdleAlive(OriginSet(connections, torigin[t]))
               /\ cstate'[tconn'[t]] = "ACTIVE"
               /\ OriginSet(connections', torigin[t])
                    = OriginSet(connections, torigin[t]) \ DroppedIdle(OriginSet(connections, torigin[t]))
         /\ (pc[t] \in {"get_evict", "get_evict_close", "rq"} /\ pc'[t] # pc[t]
               /\ tconn[t] # None /\ ~tnew[t])
            => /\ connections' = connections
               /\ \A c \in Conns : cstate[c] = "NEW" => cstate'[c] = "NEW"
               /\ pc'[t] \in {"get_evict", "get_evict_close", "rq", "request_returned", "request_raised"}]_vars

\* C9 witness (Scenario A): the second request to the origin returned, served
\* by the one connection ever constructed, which is the origin's whole set.
C9_Witness ==
    /\ ~http2
    /\ \E t \in Tasks :
         /\ pc[t] = "request_returned"
         /\ ~tnew[t]
         /\ connections = PutOrigin(RegistryClear(connections), torigin[t], {tconn[t]})
         /\ {c \in Conns : cstate[c] # "NEW"} = {tconn[t]}
         /\ Cardinality({s \in Streams : sconn[s] = tconn[t]}) = 2

\* C10: the step by which a failed connection.request() ends request() hands
\* the connection's error to the caller, leaves the registry as it was, calls
\* close() on nothing, and leaves the connection in a state the connection
\* chose; the ended call does not enter connection.request() again.
C10_RequestFailure ==
    [][\A t \in Tasks :
         /\ (pc[t] = "rq" /\ pc'[t] = "request_raised")
            => /\ terr'[t] = "RequestError"
               /\ connections' = connections
               /\ closeCalls' = closeCalls
               /\ cstate'[tconn[t]] \in ConnRequestFailStates(tconn[t])
               /\ \A c \in Conns \ {tconn[t]} : cstate'[c] = cstate[c]
         /\ (pc[t] = "request_raised" /\ pc'[t] # pc[t]) => calls' = calls - 1]_vars

\* C10 witness: the request that registered a new connection failed; the
\* caller has the error and the connection, left CLOSED, is still registered.
C10_Witness ==
    \E t \in Tasks :
        /\ pc[t] = "request_raised"
        /\ terr[t] = "RequestError"
        /\ tnew[t]
        /\ cstate[tconn[t]] = "CLOSED"
        /\ closeCalls[tconn[t]] = 0
        /\ tconn[t] \in OriginSet(connections, torigin[t])

\* ------------------------------------------------------------------- C11
\* The tasks that are inside an operation of a connection: connection.request()
\* (line 88) or connection.close() (lines 135 and 158).
InConnectionCall == {t \in Tasks : pc[t] \in {"rq", "get_evict_close", "pool_conn_close"}}

\* The positions inside one of the three async with self.thread_lock blocks.
InCriticalSection == {"get_scan", "reg_add", "cb_body", "pool_collect"}

\* C11: the registry lock is never held while a connection's request execution
\* or close is in progress: a task that is inside connection.request() or
\* connection.close() does not hold the lock, and the holder of the lock is
\* inside one of the critical sections.
C11_LockDiscipline ==
    /\ \A t \in InConnectionCall : lock # t
    /\ lock # None => pc[lock] \in InCriticalSection

\* One task is closing a connection for close() while the other task holds the
\* lock in the critical section of its lookup.
C11_Witness ==
    \E t \in Tasks, u \in Tasks :
        /\ pc[t] = "pool_conn_close"
        /\ lock = u
        /\ pc[u] = "get_scan"

\* ------------------------------------------------------------------- C12
\* Task t runs the critical section of its lookup in this step.
ScanStep(t) == pc[t] = "get_scan" /\ pc'[t] = "get_evict"

\* C12 (as claimed): a dropped IDLE connection is closed and removed from the
\* registry before the candidate search proceeds to any further connection of
\* the origin.  The search is over when the critical section ends, so when the
\* origin holds a further connection, every dropped IDLE connection would be
\* closed and unregistered by then.
C12_ClosedBeforeSearchProceeds ==
    [][\A t \in Tasks :
          ScanStep(t) =>
              LET S == OriginSet(connections, torigin[t]) IN
                Cardinality(S) >= 2 =>
                    \A c \in DroppedIdle(S) :
                        /\ c \notin Registered(connections')
                        /\ closeCalls'[c] >= 1]_vars

\* C12 (amended): the search removes a dropped IDLE connection from the registry
\* and collects it, without closing it; connection.close() is called on it after
\* the critical section, on a connection that is no longer registered and by a
\* task that does not hold the lock; the lookup ends only when close() has been
\* called on every collected connection.
C12_RemovedThenClosedAfterRelease ==
    [][\A t \in Tasks :
          /\ ScanStep(t) =>
                LET dead == DroppedIdle(OriginSet(connections, torigin[t])) IN
                  /\ dead \cap Registered(connections') = {}
                  /\ toclose'[t] = dead
                  /\ \A c \in dead : closeCalls'[c] = closeCalls[c] /\ cstate'[c] = "IDLE"
                  /\ lock' = None
          /\ (pc[t] = "get_evict" /\ pc'[t] = "get_evict_close") =>
                /\ tcur'[t] \in toclose[t]
                /\ tcur'[t] \notin Registered(connections)
                /\ closeCalls'[tcur'[t]] = closeCalls[tcur'[t]] + 1
                /\ lock # t
          /\ (pc[t] = "get_evict" /\ pc'[t] \notin {"get_evict", "get_evict_close"}) =>
                \A c \in toclose[t] : closeCalls[c] >= 1]_vars

\* The search met a dropped IDLE connection next to a further connection of the
\* origin: the critical section is over, the dropped connection is out of the
\* registry and close() has not been called on it yet.
C12_Witness ==
    \E t \in Tasks :
        /\ pc[t] = "get_evict"
        /\ pending[t] # {}
        /\ HasOrigin(connections, torigin[t])
        /\ \A c \in pending[t] :
              /\ closeCalls[c] = 0
              /\ cstate[c] = "IDLE"
              /\ c \notin Registered(connections)

\* ------------------------------------------------------------------- C13
\* Connection c leaves the registry in this step.
Removed(c) == c \in Registered(connections) /\ c \notin Registered(connections')

\* C13 (as claimed): a connection handle is removed from the registry only
\* after it has reached CLOSED: in every step that removes a handle (eviction,
\* response-closed, pool close) the handle is already CLOSED.
C13_RemovedOnlyWhenClosed ==
    [][\A c \in Conns : Removed(c) => cstate[c] = "CLOSED"]_vars

\* C13 (amended): only response-closed removes a handle that is already CLOSED.
\* The lookup removes a dropped handle while it is still IDLE and close()
\* removes every handle whatever its state; both collect the handle and call
\* connection.close() on it after the removal, and when they return normally
\* every handle they collected is CLOSED.
C13_RemovalAndClose ==
    [][/\ \A c \in Conns :
            Removed(c) =>
                \E t \in Tasks :
                    \/ /\ pc[t] = "cb_body"
                       /\ c = tconn[t]
                       /\ cstate[c] = "CLOSED"
                    \/ /\ pc[t] = "get_scan"
                       /\ cstate[c] = "IDLE" /\ dropped[c]
                       /\ c \in pending'[t]
                       /\ closeCalls[c] = 0
                    \/ /\ pc[t] = "pool_collect"
                       /\ c \in pending'[t]
       /\ \A t \in Tasks :
            /\ (pc[t] = "pool_loop" /\ pc'[t] = "pool_closed") =>
                  \A c \in toclose[t] : cstate[c] = "CLOSED"
            /\ (pc[t] = "get_evict" /\ pc'[t] \in {"rq", "reg_lock"}) =>
                  \A c \in toclose[t] : cstate[c] = "CLOSED"]_vars

\* close() has taken a connection that is not CLOSED out of the registry and
\* has not closed it yet, while a response-closed notification of the other
\* task has removed a CLOSED one.
C13_Witness ==
    \E t \in Tasks, u \in Tasks :
        /\ pc[t] = "pool_loop"
        /\ \E c \in pending[t] : cstate[c] \in {"IDLE", "ACTIVE"} /\ c \notin Registered(connections)
        /\ pc[u] = "stream_closed"
        /\ tsawclosed[u]
        /\ cstate[tconn[u]] = "CLOSED"
        /\ tconn[u] \notin toclose[t]

\* ------------------------------------------------------------------- C14
\* Task t runs the critical section of _response_closed in this step.
ResponseClosedStep(t) == pc[t] = "cb_body" /\ pc'[t] \in {"stream_closed", "stream_close_raised"}

\* C14: response-closed on a connection whose state is CLOSED takes it out of
\* the set of its origin, and takes the origin out of the registry when the set
\* becomes empty, the sets of the other origins staying as they are; on a
\* connection whose state is not CLOSED it leaves the registry entirely
\* unchanged.
C14_ResponseClosedEffect ==
    [][\A t \in Tasks :
          ResponseClosedStep(t) =>
              LET c == tconn[t]
                  o == corigin[c]
              IN  IF cstate[c] = "CLOSED"
                  THEN /\ c \notin Registered(connections')
                       /\ OriginSet(connections', o) = OriginSet(connections, o) \ {c}
                       /\ HasOrigin(connections', o) <=> OriginSet(connections', o) # {}
                       /\ \A k \in Origins \ {o} :
                             /\ HasOrigin(connections', k) <=> HasOrigin(connections, k)
                             /\ OriginSet(connections', k) = OriginSet(connections, k)
                  ELSE /\ connections' = connections
                       /\ c \in Registered(connections) => c \in OriginSet(connections', o)]_vars

\* Both cases have happened: the notification of one task found its connection
\* CLOSED and removed it with its origin, the one of the other task found its
\* connection IDLE and left it registered.
C14_Witness ==
    \E t \in Tasks, u \in Tasks :
        /\ pc[t] = "stream_closed" /\ tsawclosed[t]
        /\ ~HasOrigin(connections, corigin[tconn[t]])
        /\ pc[u] = "stream_closed" /\ ~tsawclosed[u]
        /\ cstate[tconn[u]] = "IDLE"
        /\ tconn[u] \in OriginSet(connections, corigin[tconn[u]])

\* ------------------------------------------------------------------- C15
\* C15: the connection find-reusable returns was set to ACTIVE inside the
\* critical section that selected it, and when that critical section releases
\* the lock it is a member of the registry set of the requested origin; the
\* lookup returns that connection and no other.
C15_ReservedBeforeRelease ==
    [][\A t \in Tasks :
          /\ (ScanStep(t) /\ tconn'[t] # None) =>
                /\ lock = t
                /\ lock' = None
                /\ tconn'[t] \in OriginSet(connections, torigin[t])
                /\ cstate'[tconn'[t]] = "ACTIVE"
                /\ tconn'[t] \in OriginSet(connections', torigin[t])
          /\ (pc[t] \in {"get_evict", "get_evict_close"} /\ tconn[t] # None) =>
                /\ tconn'[t] = tconn[t]
                /\ pc'[t] \in {"get_evict", "get_evict_close", "rq", "request_raised"}]_vars

\* A lookup has released the lock with a reserved connection: the connection is
\* ACTIVE and registered under the origin while the other task holds the lock
\* for a lookup of the same origin.
C15_Witness ==
    \E t \in Tasks, u \in Tasks :
        /\ pc[t] = "get_evict"
        /\ tconn[t] # None
        /\ cstate[tconn[t]] = "ACTIVE"
        /\ tconn[t] \in OriginSet(connections, torigin[t])
        /\ lock = u
        /\ pc[u] = "get_scan"
        /\ torigin[u] = torigin[t]

\* ------------------------------------------------------------------- C16
\* The origins under which connection c is listed.
ListedUnder(c) == {o \in DOMAIN connections : c \in connections[o]}

\* C16: no cross-listing: every registered connection appears in the set of
\* exactly one origin, and that origin is its own origin attribute.
C16_NoCrossListing ==
    \A c \in Registered(connections) : ListedUnder(c) = {corigin[c]}

\* Two origins are registered at once, one of them with two connections.
C16_Witness ==
    /\ DOMAIN connections = Origins
    /\ \E o \in Origins : Cardinality(connections[o]) >= 2

\* ------------------------------------------------------------------- C17
\* C17 (as claimed): response-closed never fails, also when the connection is
\* CLOSED and no longer in the registry: no close() of a response body ends
\* with an error raised by the removal of lines 144-146.
C17_ResponseClosedNeverFails ==
    \A t \in Tasks : ~(pc[t] = "stream_close_raised" /\ terr[t] = "KeyError")

\* ------------------------------------------------------------------- C18
\* request() calls that ended with an error after find-reusable had reserved a
\* connection for them.
EndedAfterReservation == {t \in Tasks : pc[t] = "request_raised" /\ tconn[t] # None /\ ~tnew[t]}

\* C18 (as claimed): a reservation is never lost: a connection find-reusable
\* set to ACTIVE is returned to the calling request and used for its
\* connection.request(), also when closing an evicted connection fails.  So a
\* request() that ended with an error after a reservation has an error of
\* connection.request(), and no connection that the pool took from IDLE to
\* ACTIVE is left ACTIVE with no request ever entered on it.
C18_ReservationNeverLost ==
    \A t \in EndedAfterReservation : terr[t] = "RequestError"

\* ------------------------------------------------------------------- C19
\* _get_connection_from_pool of task t returns a connection in this step, and
\* request() calls connection.request() on it.
LookupReturnsConnection(t) == pc[t] = "get_evict" /\ pc'[t] = "rq"

\* No step takes a connection out of CLOSED.
ClosedStaysClosed == \A c \in Conns : cstate[c] = "CLOSED" => cstate'[c] = "CLOSED"

\* C19 (as claimed): a CLOSED connection is never reused: find-reusable never
\* returns a connection whose state is CLOSED, and the state of a CLOSED
\* connection is never changed.
C19_ClosedNeverReturned ==
    [][/\ \A t \in Tasks : LookupReturnsConnection(t) => cstate[tconn[t]] # "CLOSED"
       /\ ClosedStaysClosed]_vars

\* C19 (amended): find-reusable never selects a connection whose state is
\* CLOSED: the connection it sets to ACTIVE was, in that critical section, IDLE
\* and alive, or ACTIVE on a multiplexing pool; and the state of a CLOSED
\* connection is never changed.
C19_ClosedNeverSelected ==
    [][/\ \A t \in Tasks :
            (ScanStep(t) /\ tconn'[t] # None) =>
                \/ cstate[tconn'[t]] = "IDLE" /\ ~dropped[tconn'[t]]
                \/ cstate[tconn'[t]] = "ACTIVE" /\ http2
       /\ ClosedStaysClosed]_vars

\* A lookup has passed over a CLOSED connection of its origin and reserved
\* another one: both are registered under the origin, the lookup has not
\* returned yet.
C19_Witness ==
    \E t \in Tasks :
        /\ pc[t] = "get_evict"
        /\ tconn[t] # None
        /\ cstate[tconn[t]] = "ACTIVE"
        /\ \E c \in OriginSet(connections, torigin[t]) :
              /\ cstate[c] = "CLOSED"
              /\ \A u \in Tasks : tconn[u] = c => pc[u] = "request_raised"

\* ------------------------------------------------------------------- C20
\* A response-closed notification for connection c is still to come: a request
\* on c is under way and may return a response body, a response body of c has
\* not been closed yet, or the close of one is under way.
RemovalPending(c) ==
    \/ Holding(c) # {}
    \/ \E s \in Streams : sconn[s] = c /\ scloses[s] = 0
    \/ \E t \in Tasks : tconn[t] = c /\ pc[t] \in {"body_close", "cb_lock", "cb_body"}

\* C20 (as claimed): no CLOSED connection stays registered forever: if every
\* returned response body is eventually closed, a registered connection that
\* reaches CLOSED, also by a failed connection.request() that returned no
\* body, is eventually removed without close() of the pool.  Short of close(),
\* only a response-closed notification removes a CLOSED connection, so a
\* registered CLOSED connection always has such a notification still to come.
C20_ClosedEventuallyRemoved ==
    \A c \in Registered(connections) : cstate[c] = "CLOSED" => RemovalPending(c)

====
